---- MODULE Spec2Model ----
(***************************************************************************)
(* Model of src/main.py: the DicomParser of melandur/utils.                *)
(*                                                                         *)
(* A DicomParser walks a source tree, picks the first file of every        *)
(* directory that passes check_file, reads its metadata, matches it        *)
(* against the search_tags of every modality and records the file path in  *)
(* path_memory[case_name][modality].  check_path_memory then reports the   *)
(* modalities each case lacks and convert_to_nifti converts every entry.   *)
(*                                                                         *)
(* Python strings are modelled as sequences of one-character strings, so   *)
(* that `x in s` and `s.endswith(x)` are computed and not assumed.  Python *)
(* dicts are modelled as sequences of entries in insertion order.          *)
(***************************************************************************)
EXTENDS Integers, Sequences, FiniteSets, TLC

VARIABLES
    file_types,            \* self.file_types: list of suffixes
    search_tags,           \* self.search_tags: modality -> key -> list of value groups
    exclude_tags,          \* self.exclude_tags: list of substrings
    min_number_of_slices,  \* self.min_number_of_slices
    fs,                    \* the tree under self.src as os.walk lists it
    path_memory,           \* self.path_memory: case_name -> modality -> file_path
    pc,                    \* position of __call__
    di,                    \* outer loop of scan_folder: index of the directory
    fi,                    \* inner loop of scan_folder: index of the file
    checked,               \* calls of check_file made by scan_folder, in order
    dcmread,               \* calls of pydicom dcmread made by meta_data_search, in order
    error,                 \* the exception that left __call__, if any
    report,                \* warning lines of check_path_memory, in order
    converted              \* images written by convert_to_nifti, in order

config == <<file_types, search_tags, exclude_tags, min_number_of_slices, fs>>
vars == <<file_types, search_tags, exclude_tags, min_number_of_slices, fs,
          path_memory, pc, di, fi, checked, dcmread, error, report, converted>>

----------------------------------------------------------------------------
(* Bounds of the inputs.                                                   *)

MaxGroups == 2      \* value groups declared by one modality, over all its keys
MaxValLen == 2      \* length of a SeriesDescription value
MaxFiles == 2       \* files listed in one directory
MaxDirs == 2        \* sub-directories of the source directory
MaxMinSlices == 2   \* largest min_number_of_slices above the directory sizes

----------------------------------------------------------------------------
(* Python strings.                                                         *)

\* x in s
Contains(x, s) ==
    \E i \in 0..(Len(s) - Len(x)) : SubSeq(s, i + 1, i + Len(x)) = x

\* s.endswith(x)
EndsWith(s, x) ==
    Len(x) <= Len(s) /\ SubSeq(s, Len(s) - Len(x) + 1, Len(s)) = x

\* os.path.join(a, b)
Join(a, b) ==
    IF b # <<>> /\ b[1] = "/" THEN b
    ELSE IF a = <<>> \/ a[Len(a)] = "/" THEN a \o b
    ELSE a \o <<"/">> \o b

RECURSIVE RStripSlash(_)
RStripSlash(s) ==
    IF s # <<>> /\ s[Len(s)] = "/" THEN RStripSlash(SubSeq(s, 1, Len(s) - 1)) ELSE s

\* os.path.dirname(p)
Dirname(p) ==
    LET slashes == {i \in DOMAIN p : p[i] = "/"}
        i == IF slashes = {} THEN 0 ELSE CHOOSE k \in slashes : \A j \in slashes : j <= k
        head == SubSeq(p, 1, i)
    IN  IF head # <<>> /\ \E k \in DOMAIN head : head[k] # "/" THEN RStripSlash(head) ELSE head

NoneStr == <<"N", "o", "n", "e">>

\* ds.get(key): the value, or None when the data set has no such element
Get(ds, key) ==
    IF key \in DOMAIN ds THEN [present |-> TRUE, val |-> ds[key]]
    ELSE [present |-> FALSE, val |-> <<>>]

\* truth value of ds.get(key): None and the empty string are false
Truthy(v) == v.present /\ v.val # <<>>

\* str(ds.get(key))
Str(v) == IF v.present THEN v.val ELSE NoneStr

----------------------------------------------------------------------------
(* The file system under self.src.                                         *)

\* a directory is [root, files, nsub]: the root os.walk yields for it, its
\* non-directory entries [name, regular, ds] in listing order, and the number of
\* its sub-directories
Files == UNION {{<<d, f>> : f \in DOMAIN fs[d].files} : d \in DOMAIN fs}

\* os.path.join(root, file) of scan_folder
FilePath(d, f) == Join(fs[d].root, fs[d].files[f].name)

\* os.path.isfile(path)
IsFile(path) ==
    \E e \in Files : FilePath(e[1], e[2]) = path /\ fs[e[1]].files[e[2]].regular

\* len(os.listdir(dir)): files and sub-directories of the directory
ListdirLen(dir) ==
    LET d == CHOOSE k \in DOMAIN fs : RStripSlash(fs[k].root) = dir
    IN  Len(fs[d].files) + fs[d].nsub

\* pydicom.filereader.dcmread(path, force=True): the data set stored in the file
DcmreadFile(path) ==
    LET e == CHOOSE x \in Files : FilePath(x[1], x[2]) = path
    IN  fs[e[1]].files[e[2]].ds

----------------------------------------------------------------------------
(* DicomParser: the pure methods.                                          *)

ModalitySet == {search_tags[i].name : i \in DOMAIN search_tags}

\* self.search_tags[modality]: the keys of the modality with their value groups
RulesOf(modality) ==
    LET i == CHOOSE k \in DOMAIN search_tags : search_tags[k].name = modality
    IN  search_tags[i].keys

\* check_file_type with an empty list of file types taken as "any type"
check_file_type_any(file_name) ==
    file_types = << >> \/ SelectSeq(file_types, LAMBDA x : EndsWith(file_name, x)) # <<>>

\* check_file_type(file_name)
check_file_type(file_name) ==
    SelectSeq(file_types, LAMBDA x : EndsWith(file_name, x)) # <<>>

\* [x for x in value if x in meta_data] is not empty
GroupHit(value, meta_data) ==
    SelectSeq(value, LAMBDA x : Contains(x, meta_data)) # <<>>

\* the number of times `counter += 1` runs for one key
Hits(search_values, meta_data) ==
    Len(SelectSeq(search_values, LAMBDA value : GroupHit(value, meta_data)))

\* check_tags returning true as soon as one group is hit
RECURSIVE check_tags_loop_partial(_, _, _, _, _)
check_tags_loop_partial(ds, keys, i, counter, count_values) ==
    IF i > Len(keys)
    THEN [raised |-> FALSE, key |-> "", result |-> (counter # 0)]
    ELSE LET meta_data == Get(ds, keys[i].key)
         IN  IF Truthy(meta_data)
             THEN LET search_values == keys[i].groups
                  IN  check_tags_loop_partial(ds, keys, i + 1,
                                      counter + Hits(search_values, meta_data.val),
                                      count_values + Len(search_values))
             ELSE [raised |-> TRUE, key |-> keys[i].key, result |-> FALSE]

\* check_tags passing over a key without value instead of raising
RECURSIVE check_tags_loop_skip(_, _, _, _, _)
check_tags_loop_skip(ds, keys, i, counter, count_values) ==
    IF i > Len(keys)
    THEN [raised |-> FALSE, key |-> "",
          result |-> (counter = count_values /\ counter # 0)]
    ELSE LET meta_data == Get(ds, keys[i].key)
         IN  IF Truthy(meta_data)
             THEN LET search_values == keys[i].groups
                  IN  check_tags_loop_skip(ds, keys, i + 1,
                                      counter + Hits(search_values, meta_data.val),
                                      count_values + Len(search_values))
             ELSE check_tags_loop_skip(ds, keys, i + 1, counter, count_values)

\* the loop of check_tags over the keys of the modality, from key i on
RECURSIVE check_tags_loop(_, _, _, _, _)
check_tags_loop(ds, keys, i, counter, count_values) ==
    IF i > Len(keys)
    THEN [raised |-> FALSE, key |-> "",
          result |-> (counter = count_values /\ counter # 0)]
    ELSE LET meta_data == Get(ds, keys[i].key)
         IN  IF Truthy(meta_data)
             THEN LET search_values == keys[i].groups
                  IN  check_tags_loop(ds, keys, i + 1,
                                      counter + Hits(search_values, meta_data.val),
                                      count_values + Len(search_values))
             ELSE [raised |-> TRUE, key |-> keys[i].key, result |-> FALSE]

\* check_tags(ds, modality, case_name): the boolean it returns, or the key its
\* ValueError names
check_tags(ds, modality) == check_tags_loop(ds, RulesOf(modality), 1, 0, 0)

BoolInt(b) == IF b THEN 1 ELSE 0

\* check_file asking for more than min_number_of_slices entries
check_file_more(file_path) ==
    LET check_1 == IsFile(file_path) /\ check_file_type(file_path)
        count_slices == ListdirLen(Dirname(file_path))
        check_2 == SelectSeq(exclude_tags, LAMBDA x : Contains(x, file_path)) = <<>>
        check_3 == count_slices > min_number_of_slices
    IN  BoolInt(check_1) * BoolInt(check_2) * BoolInt(check_3)

\* check_file(file_path): the product check_1 * check_2 * check_3
check_file(file_path) ==
    LET check_1 == IsFile(file_path) /\ check_file_type(file_path)
        count_slices == ListdirLen(Dirname(file_path))
        check_2 == SelectSeq(exclude_tags, LAMBDA x : Contains(x, file_path)) = <<>>
        check_3 == count_slices >= min_number_of_slices
    IN  BoolInt(check_1) * BoolInt(check_2) * BoolInt(check_3)

----------------------------------------------------------------------------
(* self.path_memory: a NestedDefaultDict, case_name -> modality -> path.   *)
(* A sequence of [case, seqs], seqs a sequence of [modality, path].        *)

Cases(pm) == {pm[i].case : i \in DOMAIN pm}

SequenceNames(inner) == {inner[j].modality : j \in DOMAIN inner}

\* pm[case_name] for a case the index holds
Inner(pm, case_name) ==
    LET i == CHOOSE k \in DOMAIN pm : pm[k].case = case_name IN pm[i].seqs

PathOf(pm, case_name, modality) ==
    LET inner == Inner(pm, case_name)
        j == CHOOSE k \in DOMAIN inner : inner[k].modality = modality
    IN  inner[j].path

Has(pm, case_name, modality) ==
    case_name \in Cases(pm) /\ modality \in SequenceNames(Inner(pm, case_name))

\* inner.setdefault(modality, file_path): the first path is kept
InnerSetDefault(inner, modality, file_path) ==
    IF modality \in SequenceNames(inner) THEN inner
    ELSE Append(inner, [modality |-> modality, path |-> file_path])

\* inner[modality] = file_path
InnerSet(inner, modality, file_path) ==
    IF modality \in SequenceNames(inner)
    THEN [j \in DOMAIN inner |->
            IF inner[j].modality = modality
            THEN [modality |-> modality, path |-> file_path] ELSE inner[j]]
    ELSE Append(inner, [modality |-> modality, path |-> file_path])

\* self.path_memory[case_name][modality] = file_path
PathMemorySet(pm, case_name, modality, file_path) ==
    IF case_name \in Cases(pm)
    THEN [i \in DOMAIN pm |->
            IF pm[i].case = case_name
            THEN [case |-> case_name,
                  seqs |-> InnerSet(pm[i].seqs, modality, file_path)]
            ELSE pm[i]]
    ELSE Append(pm, [case |-> case_name,
                     seqs |-> <<[modality |-> modality, path |-> file_path]>>])

\* self.path_memory[case_name]: reading a missing case creates it, empty
PathMemoryTouch(pm, case_name) ==
    IF case_name \in Cases(pm) THEN pm
    ELSE Append(pm, [case |-> case_name, seqs |-> << >>])

\* meta_data_search reading self.path_memory[case_name] for every modality
RECURSIVE meta_data_search_loop_touch(_, _, _, _, _)
meta_data_search_loop_touch(pm, ds, case_name, file_path, i) ==
    IF i > Len(search_tags) THEN [pm |-> pm, raised |-> FALSE, key |-> ""]
    ELSE LET modality == search_tags[i].name
             r == check_tags(ds, modality)
         IN  IF r.raised THEN [pm |-> pm, raised |-> TRUE, key |-> r.key]
             ELSE IF r.result
             THEN meta_data_search_loop_touch(
                      PathMemorySet(pm, case_name, modality, file_path),
                      ds, case_name, file_path, i + 1)
             ELSE meta_data_search_loop_touch(
                      PathMemoryTouch(pm, case_name), ds, case_name, file_path, i + 1)

\* the loop of meta_data_search over the modalities, from modality i on
RECURSIVE meta_data_search_loop(_, _, _, _, _)
meta_data_search_loop(pm, ds, case_name, file_path, i) ==
    IF i > Len(search_tags) THEN [pm |-> pm, raised |-> FALSE, key |-> ""]
    ELSE LET modality == search_tags[i].name
             r == check_tags(ds, modality)
         IN  IF r.raised THEN [pm |-> pm, raised |-> TRUE, key |-> r.key]
             ELSE IF r.result
             THEN meta_data_search_loop(
                      PathMemorySet(pm, case_name, modality, file_path),
                      ds, case_name, file_path, i + 1)
             ELSE meta_data_search_loop(pm, ds, case_name, file_path, i + 1)

\* meta_data_search(file_path): the path memory it leaves, and whether it raised
meta_data_search(pm, file_path) ==
    LET ds == DcmreadFile(file_path)
        case_name == Str(Get(ds, "PatientName"))
    IN  meta_data_search_loop(pm, ds, case_name, file_path, 1)

\* the difference of check_path_memory taken the other way round
missing_sequences_reversed(sequence_names) == sequence_names \ ModalitySet

\* missing_sequences of check_path_memory
missing_sequences(sequence_names) == ModalitySet \ sequence_names

\* the warning lines of check_path_memory, one per incomplete case
RECURSIVE check_path_memory_loop(_, _)
check_path_memory_loop(pm, i) ==
    IF i > Len(pm) THEN <<>>
    ELSE LET count_search_tags == Len(search_tags)
             sequence_names == pm[i].seqs
             rest == check_path_memory_loop(pm, i + 1)
         IN  IF count_search_tags # Len(sequence_names)
             THEN <<[case |-> pm[i].case,
                     missing |-> missing_sequences(SequenceNames(sequence_names))]>> \o rest
             ELSE rest

\* the (case_name, modality) pairs convert_to_nifti iterates over, in order
RECURSIVE Flatten(_, _)
Flatten(pm, i) ==
    IF i > Len(pm) THEN <<>>
    ELSE [j \in DOMAIN pm[i].seqs |->
            [case |-> pm[i].case, modality |-> pm[i].seqs[j].modality,
             path |-> pm[i].seqs[j].path]] \o Flatten(pm, i + 1)

----------------------------------------------------------------------------
(* The inputs: configurations and source trees a DicomParser can be given. *)

SeqsUpTo(S, n) == UNION {[1..k -> S] : k \in 0..n}

NoDs == [k \in {} |-> <<>>]

\* the data sets with the element `key` absent or holding one of `values`
Element(key, values) == {NoDs} \cup {key :> v : v \in values}

File(name, regular, ds) == [name |-> name, regular |-> regular, ds |-> ds]

Dir(root, files, nsub) == [root |-> root, files |-> files, nsub |-> nsub]

Rule(key, groups) == [key |-> key, groups |-> groups]

Modality(name, keys) == [name |-> name, keys |-> keys]

SrcRoot == <<"s", "/">>

\* the name of the k-th sub-directory of the source directory
RECURSIVE SubName(_)
SubName(k) == IF k = 0 THEN <<>> ELSE <<"u">> \o SubName(k - 1)

\* os.walk of a source directory with the given files and, for every listing of
\* subs, one sub-directory with these files
Tree(root, files, subs) ==
    <<Dir(root, files, Len(subs))>> \o
        [k \in DOMAIN subs |-> Dir(Join(root, SubName(k)), subs[k], 0)]

TagChars == {"A", "a"}

\* values of SeriesDescription and of Modality
DescValues == SeqsUpTo(TagChars, MaxValLen)
ModValues == {<<>>, <<"A">>}

\* value groups: ['A'], ['a', 'AA'], the empty group [] and ['']
GroupChoices == {<< <<"A">> >>, << <<"a">>, <<"A", "A">> >>, << >>, << << >> >>}

\* the rules of one modality: at most MaxGroups value groups over its keys
KeyRules ==
    {<< >>}
    \cup {<<Rule(k, g)>> : k \in {"SeriesDescription", "Modality"},
                           g \in SeqsUpTo(GroupChoices, MaxGroups)}
    \cup {<<Rule(ks[1], gs[1]), Rule(ks[2], gs[2])>> :
            ks \in {<<"SeriesDescription", "Modality">>, <<"Modality", "SeriesDescription">>},
            gs \in {x \in SeqsUpTo(GroupChoices, MaxGroups) \X SeqsUpTo(GroupChoices, MaxGroups) :
                        Len(x[1]) + Len(x[2]) <= MaxGroups}}

TagDatasets ==
    {("PatientName" :> <<"p">>) @@ a @@ b :
        a \in Element("SeriesDescription", DescValues),
        b \in Element("Modality", ModValues)}

\* one file, accepted by the filter, with any data set; one modality with any rules
InitTags ==
    /\ file_types = << << >> >>
    /\ exclude_tags = << <<"X">> >>
    /\ min_number_of_slices = 1
    /\ search_tags \in {<<Modality("t2_star", k)>> : k \in KeyRules}
    /\ fs \in {Tree(SrcRoot, <<File(<<"i">>, TRUE, ds)>>, << >>) : ds \in TagDatasets}

DsStar == ("PatientName" :> <<"p">>) @@ ("SeriesDescription" :> <<"A">>) @@ ("Modality" :> <<"A">>)
DsSpair == ("PatientName" :> <<"p">>) @@ ("SeriesDescription" :> <<"a">>) @@ ("Modality" :> <<"A">>)
DsBoth == ("PatientName" :> <<"p">>) @@ ("SeriesDescription" :> <<"A", "a">>) @@ ("Modality" :> <<"A">>)
DsOther == ("PatientName" :> <<"q">>) @@ ("SeriesDescription" :> <<"A">>) @@ ("Modality" :> <<"A">>)
DsNoModality == ("PatientName" :> <<"p">>) @@ ("SeriesDescription" :> <<"A", "a">>)
DsNoName == ("SeriesDescription" :> <<"a">>) @@ ("Modality" :> <<"a">>)

FilterNames == {<<"i">>, <<"i", "d">>, <<"X", "d">>}

\* the listings of one directory: at most MaxFiles entries with different names
FilterListings ==
    {l \in SeqsUpTo({File(n, r, DsStar) : n \in FilterNames, r \in BOOLEAN}, MaxFiles) :
        \A i, j \in DOMAIN l : i # j => l[i].name # l[j].name}

StarRules == <<Rule("SeriesDescription", << << <<"A">> >> >>)>>

\* any listing of the source directory, any filter
InitFilter ==
    /\ file_types \in SeqsUpTo({<< >>, <<"d">>, <<"i", "d">>}, 1)
    /\ exclude_tags \in SeqsUpTo({<<"X">>}, 1)
    /\ min_number_of_slices \in 0..MaxMinSlices
    /\ search_tags = <<Modality("t2_star", StarRules)>>
    /\ fs \in {Tree(r, l, subs) :
                r \in {SrcRoot, <<"X">>}, l \in FilterListings,
                subs \in SeqsUpTo({<<File(<<"i", "d">>, TRUE, DsStar)>>}, 1)}

\* t2_star needs 'A' and t2_spair needs 'a' in SeriesDescription; Modality is 'A'
BothRules ==
    <<Modality("t2_star", <<Rule("SeriesDescription", << << <<"A">> >> >>),
                            Rule("Modality", << << <<"A">> >> >>)>>),
      Modality("t2_spair", <<Rule("SeriesDescription", << << <<"a">> >> >>),
                             Rule("Modality", << << <<"A">> >> >>)>>)>>

WalkRules ==
    {<< >>, BothRules, <<BothRules[1]>>, <<BothRules[2], BothRules[1]>>,
     <<Modality("t2_star", StarRules), BothRules[2]>>}

WalkListings ==
    {<< >>,
     <<File(<<"i", "d">>, TRUE, DsStar)>>,
     <<File(<<"i">>, TRUE, DsOther), File(<<"i", "d">>, TRUE, DsSpair)>>,
     <<File(<<"i", "d">>, TRUE, DsBoth), File(<<"d">>, TRUE, DsOther)>>,
     <<File(<<"i", "d">>, TRUE, DsNoModality)>>,
     <<File(<<"i", "d">>, TRUE, DsOther)>>,
     <<File(<<"d">>, FALSE, DsStar), File(<<"i", "d">>, TRUE, DsNoName)>>}

\* a source directory with at most MaxDirs sub-directories, two modalities
InitWalk ==
    /\ file_types = << <<"d">> >>
    /\ exclude_tags = << <<"X">> >>
    /\ min_number_of_slices = 1
    /\ search_tags \in WalkRules
    /\ fs \in {Tree(SrcRoot, l[1], SubSeq(l, 2, Len(l))) :
                l \in SeqsUpTo(WalkListings, MaxDirs + 1) \ {<< >>}}

NoError == [raised |-> FALSE, key |-> ""]

\* DicomParser.__init__
Init ==
    /\ InitTags \/ InitFilter \/ InitWalk
    /\ path_memory = << >>
    /\ pc = "idle"
    /\ di = 0
    /\ fi = 0
    /\ checked = << >>
    /\ dcmread = << >>
    /\ error = NoError
    /\ report = << >>
    /\ converted = << >>

----------------------------------------------------------------------------
(* DicomParser.__call__ and the methods it runs.                           *)

\* __call__ enters scan_folder
Call ==
    /\ pc = "idle"
    /\ pc' = "scan_folder"
    /\ di' = 1
    /\ fi' = 1
    /\ UNCHANGED <<config, path_memory, checked, dcmread, error, report, converted>>

InFile == pc = "scan_folder" /\ di <= Len(fs) /\ fi <= Len(fs[di].files)

\* scan_folder: check_file is false, the inner loop goes on
ScanSkipFile ==
    /\ InFile
    /\ check_file(FilePath(di, fi)) = 0
    /\ checked' = Append(checked, [d |-> di, f |-> fi, ok |-> FALSE])
    /\ fi' = fi + 1
    /\ UNCHANGED <<config, path_memory, pc, di, dcmread, error, report, converted>>

\* scan_folder without the break: the inner loop goes on after the read
ScanInspectFileNoBreak ==
    /\ InFile
    /\ check_file(FilePath(di, fi)) # 0
    /\ LET r == meta_data_search(path_memory, FilePath(di, fi))
       IN  /\ ~r.raised
           /\ path_memory' = r.pm
    /\ checked' = Append(checked, [d |-> di, f |-> fi, ok |-> TRUE])
    /\ dcmread' = Append(dcmread, [d |-> di, f |-> fi])
    /\ fi' = fi + 1
    /\ UNCHANGED <<config, pc, di, error, report, converted>>

\* scan_folder: check_file is true, meta_data_search returns, break
ScanInspectFile ==
    /\ InFile
    /\ check_file(FilePath(di, fi)) # 0
    /\ LET r == meta_data_search(path_memory, FilePath(di, fi))
       IN  /\ ~r.raised
           /\ path_memory' = r.pm
    /\ checked' = Append(checked, [d |-> di, f |-> fi, ok |-> TRUE])
    /\ dcmread' = Append(dcmread, [d |-> di, f |-> fi])
    /\ di' = di + 1
    /\ fi' = 1
    /\ UNCHANGED <<config, pc, error, report, converted>>

\* scan_folder catching the ValueError and going on with the next directory
ScanRaiseCaught ==
    /\ InFile
    /\ check_file(FilePath(di, fi)) # 0
    /\ LET r == meta_data_search(path_memory, FilePath(di, fi))
       IN  /\ r.raised
           /\ path_memory' = r.pm
    /\ checked' = Append(checked, [d |-> di, f |-> fi, ok |-> TRUE])
    /\ dcmread' = Append(dcmread, [d |-> di, f |-> fi])
    /\ di' = di + 1
    /\ fi' = 1
    /\ UNCHANGED <<config, pc, error, report, converted>>

\* scan_folder: check_file is true, check_tags raises ValueError; nothing
\* catches it, so it leaves meta_data_search, scan_folder and __call__
ScanRaise ==
    /\ InFile
    /\ check_file(FilePath(di, fi)) # 0
    /\ LET r == meta_data_search(path_memory, FilePath(di, fi))
       IN  /\ r.raised
           /\ path_memory' = r.pm
           /\ error' = [raised |-> TRUE, key |-> r.key]
    /\ checked' = Append(checked, [d |-> di, f |-> fi, ok |-> TRUE])
    /\ dcmread' = Append(dcmread, [d |-> di, f |-> fi])
    /\ pc' = "raised"
    /\ UNCHANGED <<config, di, fi, report, converted>>

\* scan_folder: the files of the directory are exhausted
ScanNextDir ==
    /\ pc = "scan_folder"
    /\ di <= Len(fs)
    /\ fi > Len(fs[di].files)
    /\ di' = di + 1
    /\ fi' = 1
    /\ UNCHANGED <<config, path_memory, pc, checked, dcmread, error, report, converted>>

\* scan_folder: the walk is over; __call__ goes on to check_path_memory
ScanDone ==
    /\ pc = "scan_folder"
    /\ di > Len(fs)
    /\ pc' = "check_path_memory"
    /\ UNCHANGED <<config, path_memory, di, fi, checked, dcmread, error, report, converted>>

\* check_path_memory
CheckPathMemory ==
    /\ pc = "check_path_memory"
    /\ report' = check_path_memory_loop(path_memory, 1)
    /\ pc' = "convert_to_nifti"
    /\ UNCHANGED <<config, path_memory, di, fi, checked, dcmread, error, converted>>

\* convert_to_nifti: every entry is converted
ConvertToNifti ==
    /\ pc = "convert_to_nifti"
    /\ converted' = Flatten(path_memory, 1)
    /\ pc' = "done"
    /\ UNCHANGED <<config, path_memory, di, fi, checked, dcmread, error, report>>

\* convert_to_nifti: the reader or the writer fails on an entry; logger.catch
\* logs the exception and the method returns
ConvertToNiftiCaught ==
    /\ pc = "convert_to_nifti"
    /\ \E n \in 0..(Len(Flatten(path_memory, 1)) - 1) :
          converted' = SubSeq(Flatten(path_memory, 1), 1, n)
    /\ pc' = "done"
    /\ UNCHANGED <<config, path_memory, di, fi, checked, dcmread, error, report>>

Next ==
    \/ Call
    \/ ScanSkipFile
    \/ ScanInspectFile
    \/ ScanRaise
    \/ ScanNextDir
    \/ ScanDone
    \/ CheckPathMemory
    \/ ConvertToNifti
    \/ ConvertToNiftiCaught

Spec == Init /\ [][Next]_vars

TypeOK ==
    /\ pc \in {"idle", "scan_folder", "raised", "check_path_memory", "convert_to_nifti", "done"}
    /\ di \in 0..(Len(fs) + 1)
    /\ error.raised = (pc = "raised")

----------------------------------------------------------------------------
(* What the claims speak of.                                               *)

DsOf(e) == fs[e[1]].files[e[2]].ds

CaseOf(e) == Str(Get(DsOf(e), "PatientName"))

\* the (key, group) pairs a modality declares
GroupsOf(keys) ==
    UNION {{<<i, g>> : g \in DOMAIN keys[i].groups} : i \in DOMAIN keys}

\* a substring of the group occurs in the value the data set holds for the key
Satisfied(ds, keys, ig) ==
    LET value == keys[ig[1]].groups[ig[2]]
    IN  \E x \in DOMAIN value : Contains(value[x], ds[keys[ig[1]].key])

\* every key of the modality is present with a non-empty value
AllKeysFilled(ds, keys) ==
    \A i \in DOMAIN keys : keys[i].key \in DOMAIN ds /\ ds[keys[i].key] # << >>

\* the files scan_folder has read, and the file of the k-th read
ReadFile(k) == <<dcmread[k].d, dcmread[k].f>>
WasRead(e) == \E k \in DOMAIN dcmread : ReadFile(k) = e
WasChecked(e) == \E k \in DOMAIN checked : <<checked[k].d, checked[k].f>> = e

AfterScan == pc \in {"check_path_memory", "convert_to_nifti", "done"}

\* C1: for a data set that holds a non-empty value for every key of a
\* modality, check_tags returns true exactly when the modality declares at
\* least one value group and every group has a substring occurring in its
\* key's value; fewer than all groups satisfied, or no group declared, is false.
C1_CheckTagsAllGroups ==
    \A e \in Files : \A m \in DOMAIN search_tags :
        LET ds == DsOf(e)
            keys == search_tags[m].keys
            r == check_tags(ds, search_tags[m].name)
            N == Cardinality(GroupsOf(keys))
            hit == {ig \in GroupsOf(keys) : Satisfied(ds, keys, ig)}
        IN  AllKeysFilled(ds, keys) =>
                /\ ~r.raised
                /\ r.result <=> (N >= 1 /\ hit = GroupsOf(keys))
                /\ Cardinality(hit) < N => ~r.result
                /\ N = 0 => ~r.result
                /\ (WasRead(e) /\ Len(search_tags) = 1 /\ Len(fs) = 1) =>
                       (r.result <=> Has(path_memory, CaseOf(e), search_tags[m].name))

\* a file was read that satisfies some but not all groups of its modality, and
\* it was left out of the path memory
C1_Witness ==
    \E e \in Files : \E m \in DOMAIN search_tags :
        LET ds == DsOf(e)
            keys == search_tags[m].keys
            hit == {ig \in GroupsOf(keys) : Satisfied(ds, keys, ig)}
        IN  /\ WasRead(e)
            /\ AfterScan
            /\ AllKeysFilled(ds, keys)
            /\ Len(keys) = 2
            /\ hit # {} /\ hit # GroupsOf(keys)
            /\ path_memory = << >>

\* the keys configured in any modality
ConfiguredKeys ==
    UNION {{search_tags[m].keys[i].key : i \in DOMAIN search_tags[m].keys} :
            m \in DOMAIN search_tags}

LacksKey(e) == \E key \in ConfiguredKeys : key \notin DOMAIN DsOf(e)

\* C2: meta_data_search raises ValueError for every file whose data set lacks
\* a configured key, whatever the other values, whichever modality needs the
\* key and whatever the order of modalities and keys; once such a file is
\* read, __call__ has been left with the error.
C2_MissingKeyRaises ==
    /\ \A e \in Files : LacksKey(e) =>
            meta_data_search(path_memory, FilePath(e[1], e[2])).raised
    /\ \A k \in DOMAIN dcmread : LacksKey(ReadFile(k)) =>
            /\ pc = "raised"
            /\ error.raised
            /\ k = Len(dcmread)

\* the first modality matched the file and only the second needs the key the
\* file lacks: the error is raised after the first entry was stored
C2_Witness ==
    /\ pc = "raised"
    /\ Len(search_tags) = 2
    /\ path_memory # << >>
    /\ LET e == ReadFile(Len(dcmread))
       IN  /\ error.key \notin DOMAIN DsOf(e)
           /\ \A i \in DOMAIN search_tags[1].keys : search_tags[1].keys[i].key # error.key

\* the four conditions of check_file, for the file f of directory d
Eligible(e) ==
    LET path == FilePath(e[1], e[2])
    IN  /\ fs[e[1]].files[e[2]].regular
        /\ \E i \in DOMAIN file_types : EndsWith(path, file_types[i])
        /\ \A j \in DOMAIN exclude_tags : ~Contains(exclude_tags[j], path)
        /\ Len(fs[e[1]].files) + fs[e[1]].nsub >= min_number_of_slices

\* C3: check_file is truthy exactly when the path is a regular file, ends
\* with a configured suffix, contains no exclude tag and lies in a directory
\* of at least min_number_of_slices entries; a file of a smaller directory is
\* rejected whatever its metadata; a call that rejects changes nothing of the
\* DicomParser.
C3_CheckFileAllFour ==
    /\ [](\A e \in Files :
            /\ (check_file(FilePath(e[1], e[2])) # 0) <=> Eligible(e)
            /\ Len(fs[e[1]].files) + fs[e[1]].nsub < min_number_of_slices =>
                   /\ check_file(FilePath(e[1], e[2])) = 0
                   /\ ~WasRead(e)
            /\ \A k \in DOMAIN checked :
                   <<checked[k].d, checked[k].f>> = e => (checked[k].ok <=> Eligible(e)))
    /\ [][(Len(checked') > Len(checked) /\ ~checked'[Len(checked')].ok) =>
            UNCHANGED <<config, path_memory>>]_vars

\* a regular file with an accepted suffix, no exclude tag and matching
\* metadata was rejected for its directory being too small
C3_Witness ==
    \E k \in DOMAIN checked :
        LET e == <<checked[k].d, checked[k].f>>
            path == FilePath(e[1], e[2])
        IN  /\ ~checked[k].ok
            /\ fs[e[1]].files[e[2]].regular
            /\ check_file_type(path)
            /\ \A j \in DOMAIN exclude_tags : ~Contains(exclude_tags[j], path)
            /\ Len(fs[e[1]].files) + fs[e[1]].nsub < min_number_of_slices
            /\ check_tags(DsOf(e), search_tags[1].name).result
            /\ pc = "done"

\* C4 as claimed: with no file type configured, check_file_type accepts the
\* name of every file scan_folder checks.
C4_EmptyFileTypesAcceptAll ==
    file_types = << >> =>
        \A k \in DOMAIN checked : check_file_type(FilePath(checked[k].d, checked[k].f))

\* C4 as amended: with no file type configured, check_file_type rejects every
\* file name, so check_file rejects every file and nothing is read; the names
\* are all accepted when the empty suffix '' is among the file types.
C4_EmptyFileTypesRejectAll ==
    /\ file_types = << >> =>
        /\ \A e \in Files :
              /\ ~check_file_type(FilePath(e[1], e[2]))
              /\ check_file(FilePath(e[1], e[2])) = 0
        /\ \A k \in DOMAIN checked : ~checked[k].ok
        /\ dcmread = << >>
        /\ path_memory = << >>
    /\ (\E i \in DOMAIN file_types : file_types[i] = << >>) =>
        \A e \in Files : check_file_type(FilePath(e[1], e[2]))

\* with no file type configured the walk is over, every file was checked and
\* rejected, one of them regular, free of exclude tags and in a directory that
\* is large enough
C4_Witness ==
    /\ file_types = << >>
    /\ pc = "done"
    /\ checked # << >>
    /\ \A e \in Files : WasChecked(e)
    /\ \E e \in Files :
          /\ fs[e[1]].files[e[2]].regular
          /\ \A j \in DOMAIN exclude_tags : ~Contains(exclude_tags[j], FilePath(e[1], e[2]))
          /\ Len(fs[e[1]].files) + fs[e[1]].nsub >= min_number_of_slices

\* the first file of directory d, in listing order, that passes check_file
FirstCandidate(d) ==
    {f \in DOMAIN fs[d].files :
        /\ check_file(FilePath(d, f)) # 0
        /\ \A g \in 1..(f - 1) : check_file(FilePath(d, g)) = 0}

ReadsIn(d) == {k \in DOMAIN dcmread : dcmread[k].d = d}

\* scan_folder went through directory d, of first candidates C: it checked the
\* files up to the first candidate and read that one
Visited(d, C) ==
    /\ \A f \in DOMAIN fs[d].files : (\A c \in C : f <= c) => WasChecked(<<d, f>>)
    /\ \A c \in C : WasRead(<<d, c>>)

\* the file matches no modality
MatchesNothing(e) ==
    LET r == meta_data_search(<< >>, FilePath(e[1], e[2]))
    IN  ~r.raised /\ r.pm = << >>

\* C5: scan_folder reads the metadata of at most one file per directory, the
\* first in listing order that passes check_file; the files after it are not
\* inspected, the files before it are checked and never read, and the break
\* leaves only the inner loop: every directory the walk has passed, and every
\* directory once the walk is over, was visited.
C5_OneFilePerDirectory ==
    \A d \in DOMAIN fs :
        LET C == FirstCandidate(d)
        IN  /\ Cardinality(ReadsIn(d)) <= 1
            /\ \A k \in ReadsIn(d) : dcmread[k].f \in C
            /\ \A f \in DOMAIN fs[d].files : \A c \in C :
                  /\ f > c => ~WasChecked(<<d, f>>) /\ ~WasRead(<<d, f>>)
                  /\ f < c => ~WasRead(<<d, f>>)
            /\ ((pc = "scan_folder" /\ d < di) \/ AfterScan) => Visited(d, C)

\* the walk is over; one directory's first file was read and its second file
\* never checked although the file read matched nothing; a later directory's
\* first file was rejected and its second file read
C5_Witness ==
    /\ pc = "done"
    /\ \E d1, d2 \in DOMAIN fs :
          /\ d1 < d2
          /\ Len(fs[d1].files) = 2
          /\ WasRead(<<d1, 1>>)
          /\ MatchesNothing(<<d1, 1>>)
          /\ ~WasChecked(<<d1, 2>>)
          /\ WasChecked(<<d2, 1>>)
          /\ ~WasRead(<<d2, 1>>)
          /\ WasRead(<<d2, 2>>)

\* the case names of the files of the tree
CaseNames == {CaseOf(e) : e \in Files}

\* reading the file stores its path for (case_name, modality)
Writes(e, case_name, modality) ==
    Has(meta_data_search(<< >>, FilePath(e[1], e[2])).pm, case_name, modality)

\* the reads, in order, that stored a path for (case_name, modality)
Writers(case_name, modality) ==
    {k \in DOMAIN dcmread : Writes(ReadFile(k), case_name, modality)}

Last(K) == CHOOSE k \in K : \A j \in K : j <= k

\* C6: files are read in traversal order, and the path memory holds for every
\* (case, modality) pair the path of the file read last among those that
\* matched the pair: a later match overwrites an earlier one without error
\* and leaves the entries of the other pairs as they are.
C6_LastWriterWins ==
    /\ \A j, k \in DOMAIN dcmread : j < k => dcmread[j].d < dcmread[k].d
    /\ Cases(path_memory) \subseteq CaseNames
    /\ \A c \in CaseNames : \A m \in ModalitySet :
          LET W == Writers(c, m)
          IN  IF W = {} THEN ~Has(path_memory, c, m)
              ELSE /\ Has(path_memory, c, m)
                   /\ PathOf(path_memory, c, m) =
                          FilePath(ReadFile(Last(W))[1], ReadFile(Last(W))[2])

\* the run ended without error; two directories matched one pair and the
\* entry is the later path; another pair, matched only before the overwrite,
\* still holds its path
C6_Witness ==
    /\ pc = "done"
    /\ converted = Flatten(path_memory, 1)
    /\ \E c \in CaseNames : \E m, n \in ModalitySet :
          /\ m # n
          /\ Cardinality(Writers(c, m)) >= 2
          /\ Cardinality(Writers(c, n)) = 1
          /\ Last(Writers(c, n)) < Last(Writers(c, m))
          /\ PathOf(path_memory, c, m) # PathOf(path_memory, c, n)

ReportLines(case_name) == {k \in DOMAIN report : report[k].case = case_name}

\* C7: check_path_memory reports, for a case that has K of the M configured
\* modalities, exactly the M-K configured modalities the case lacks, reports
\* nothing for a case that has all M, and leaves the path memory unchanged.
C7_ReportsExactlyMissing ==
    /\ [](pc \in {"convert_to_nifti", "done"} =>
            /\ \A k \in DOMAIN report : report[k].case \in Cases(path_memory)
            /\ \A c \in Cases(path_memory) :
                  LET present == {m \in ModalitySet : Has(path_memory, c, m)}
                      K == Cardinality(present)
                      M == Cardinality(ModalitySet)
                  IN  IF K = M THEN ReportLines(c) = {}
                      ELSE /\ Cardinality(ReportLines(c)) = 1
                           /\ \A k \in ReportLines(c) :
                                 /\ report[k].missing = ModalitySet \ present
                                 /\ Cardinality(report[k].missing) = M - K)
    /\ [][pc = "check_path_memory" => path_memory' = path_memory]_vars

\* of two modalities one case has both and is not reported, another has one
\* and is reported with the other one missing
C7_Witness ==
    /\ pc = "done"
    /\ Len(search_tags) = 2
    /\ \E c1, c2 \in Cases(path_memory) :
          /\ Len(Inner(path_memory, c1)) = 2
          /\ ReportLines(c1) = {}
          /\ Len(Inner(path_memory, c2)) = 1
          /\ \E k \in ReportLines(c2) : Cardinality(report[k].missing) = 1

\* check_tags raises for the file, whichever modality is tested first
FileRaises(e) == meta_data_search(<< >>, FilePath(e[1], e[2])).raised

\* C8: a ValueError of check_tags leaves scan_folder and __call__: the file
\* that raised is the last one inspected, no later directory is checked,
\* check_path_memory and convert_to_nifti do not run, and nothing runs after.
C8_ErrorAbortsRun ==
    /\ [](/\ \A k \in DOMAIN dcmread : FileRaises(ReadFile(k)) =>
                /\ pc = "raised"
                /\ k = Len(dcmread)
          /\ pc = "raised" =>
                /\ error.raised
                /\ ReadFile(Len(dcmread)) = <<di, fi>>
                /\ FileRaises(<<di, fi>>)
                /\ \A k \in DOMAIN checked :
                      checked[k].d < di \/ (checked[k].d = di /\ checked[k].f <= fi)
                /\ report = << >>
                /\ converted = << >>)
    /\ [][pc # "raised"]_vars

\* the run was aborted with an entry in the path memory and with a later
\* directory whose first file passes check_file
C8_Witness ==
    /\ pc = "raised"
    /\ path_memory # << >>
    /\ \E d \in DOMAIN fs :
          /\ d > di
          /\ FirstCandidate(d) # {}
          /\ ~WasChecked(<<d, 1>>)

\* C9 as claimed: check_tags raises only for keys the data set does not
\* hold; a key present with any string value, the empty one included, is
\* tested and never raises.
C9_PresentKeyNeverRaises ==
    pc = "raised" => error.key \notin DOMAIN DsOf(ReadFile(Len(dcmread)))

\* C10: every case of the path memory has at least one modality, all its
\* modalities are configured ones, and every path stored is that of a file
\* read after passing check_file and matched by check_tags for the modality;
\* a tree without any match leaves the path memory and the report empty, and
\* no report line lists all configured modalities as missing.
C10_PathMemoryWellFormed ==
    /\ \A i \in DOMAIN path_memory :
          /\ path_memory[i].seqs # << >>
          /\ \A j \in DOMAIN path_memory[i].seqs :
                LET entry == path_memory[i].seqs[j]
                IN  /\ entry.modality \in ModalitySet
                    /\ \E k \in DOMAIN dcmread :
                          LET e == ReadFile(k)
                              r == check_tags(DsOf(e), entry.modality)
                          IN  /\ FilePath(e[1], e[2]) = entry.path
                              /\ CaseOf(e) = path_memory[i].case
                              /\ check_file(entry.path) # 0
                              /\ ~r.raised /\ r.result
    /\ (\A k \in DOMAIN dcmread : \A m \in ModalitySet :
            ~check_tags(DsOf(ReadFile(k)), m).result) =>
          path_memory = << >> /\ report = << >>
    /\ \A k \in DOMAIN report :
          report[k].missing # ModalitySet /\ report[k].missing # {}

\* the walk read two files, neither matched a configured modality, and the
\* run ended with an empty path memory and an empty report
C10_Witness ==
    /\ pc = "done"
    /\ search_tags # << >>
    /\ Len(dcmread) >= 2
    /\ path_memory = << >>
    /\ report = << >>
====
